---- MODULE Spec2Model ----
(***************************************************************************)
(* Model of the LMS backend's authentication core: the credential store,   *)
(* the password hasher, the password-reset flow, the JWT issuer/verifier   *)
(* and the admin dashboard counters.                                       *)
(*                                                                         *)
(* Strings that the program compares with == are modelled as sequences of  *)
(* naturals so that any two of them can be compared: a plaintext password  *)
(* is <<n>> with n > 0, a bcrypt hash string is <<0, salt>> \o plaintext.  *)
(* Timestamps are integers (minutes).                                      *)
(***************************************************************************)
EXTENDS Integers, Sequences, FiniteSets, TLC

\* ---------------------------------------------------------------- bounds
MaxUsers == 2
MaxTokens == 2
MaxReqs == 2
MaxJwts == 2
MaxBatches == 2
MaxHires == 2

\* ------------------------------------------------------ program constants
\* generate_reset_token(..., lifetime_minutes: int = 30)
lifetime_minutes == 30

\* config.py ACCESS_MIN / REFRESH_DAYS defaults; timedelta(days=1) in minutes
ACCESS_MIN == 240
REFRESH_DAYS == 7
MinutesPerDay == 1440

\* Clock instants at which requests arrive (minutes since start).
Times == {0, 29, 30, 31}
\* Clock instants around the expiry of tokens minted at 0.
TokTimes == {0, 239, 240, 241, 10080}

\* Values JWT_SECRET / JWT_REFRESH_SECRET may hold in the environment.
Secrets == {"change-me-access", "change-me-refresh"}

\* Token subjects (str(user.id)) and caller-supplied extra-claims maps.
Subjects == {"1", "2"}
NoClaims == [k \in {} |-> 0]
ExtraMaps == {NoClaims, [role |-> "student"], [sub |-> "2"], [type |-> "access"],
              [type |-> "refresh"], [exp |-> 1], [iat |-> 10080]}

\* Plaintext passwords typed by callers.
RawPasswords == {<<1>>, <<2>>}
\* bcrypt salts
Salts == {1, 2}
Reqs == 1..MaxReqs

\* E-mail strings: a mailbox in canonical form (trimmed, lowercase) or in a
\* variant carrying capitals and surrounding blanks.
EmailBases == {"a@x", "b@x"}
EmailForms == {"canon", "mixed"}
EmailInputs == EmailBases \X EmailForms

\* Values ADMIN_EMAIL / ADMIN_PASSWORD may hold in the environment.
AdminEmails == {<<"admin@x", "canon">>, <<"admin@x", "mixed">>}
ADMIN_PASSWORD == <<3>>

VARIABLES
    now,            \* wall clock
    ADMIN_EMAIL,    \* main.py configuration read at import
    ACCESS_SECRET,  \* config.py signing secret of access tokens
    REFRESH_SECRET, \* config.py signing secret of refresh tokens
    tz_aware,       \* whether the database hands DateTime columns back with tzinfo
    users,          \* table users: id -> row
    reset_tokens,   \* table password_reset_tokens: id -> row
    req,            \* in-flight POST /auth/reset requests
    jwts,           \* signed tokens handed out so far
    batches,        \* table batches: id -> row
    hires,          \* table students_hired: id -> row
    dashboards,     \* table admin_dashboard: id -> row
    hire_txn,       \* the open transaction that inserts a students_hired row
    student_profiles,    \* table student_profiles: id -> row
    mentor_profiles,     \* table mentor_profiles: id -> row
    technologies,        \* table technologies: id -> row
    mentor_technologies, \* table mentor_technologies: id -> row
    reg,            \* in-flight registration and admin create-mentor requests
    refresh_out,    \* the last exchange of POST /auth/refresh: token presented, response
    dash_req,       \* in-flight GET /admin/dashboard requests
    auth_out        \* the last exchange on a protected route: token presented, response

conf == <<ADMIN_EMAIL, ACCESS_SECRET, REFRESH_SECRET, tz_aware>>
dashVars == <<batches, hires, dashboards>>
txVars == <<hire_txn, refresh_out, dash_req, auth_out>>
regVars == <<student_profiles, mentor_profiles, technologies, mentor_technologies, reg>>
vars == <<now, conf, users, reset_tokens, req, jwts, dashVars, txVars, regVars>>

\* ------------------------------------------------------------ pure helpers

\* str.strip().lower()
strip_lower(e) == <<e[1], "canon">>

\* routes/auth.py _normalize_email
_normalize_email(e) == strip_lower(e)

\* schemas.py _allow_local_email (every modelled input contains "@")
_allow_local_email(e) == strip_lower(e)

\* str(user.id): the decimal string, written as a (text, form) pair like every
\* string that is compared with the e-mail column
str(id) == <<ToString(id), "canon">>

\* passlib bcrypt: salted one-way hash; the salt is drawn by the caller
hash_password(password, salt) == <<0, salt>> \o password

verify_password(plain_password, password_hash) == plain_password = password_hash

\* db.query(User).filter(User.email == email).first(): id of the row, 0 if none
UserByEmail(us, email) ==
    IF \E i \in 1..Len(us) : us[i].email = email
    THEN CHOOSE i \in 1..Len(us) : us[i].email = email /\ \A j \in 1..(i-1) : us[j].email # email
    ELSE 0

NewUser(email, hashed_password, role) ==
    [email |-> email, hashed_password |-> hashed_password, role |-> role, is_active |-> TRUE]

NoRow == [id |-> 0, user_id |-> 0, expires_at |-> 0, used |-> FALSE]
IdleReq == [pc |-> "idle", token |-> 0, new_password |-> <<>>, status |-> 0, detail |-> ""]

IdleReg == [pc |-> "idle", kind |-> "", email |-> <<>>, password |-> <<>>,
            technologies |-> <<>>, created |-> <<>>, out |-> <<>>, status |-> 0, detail |-> ""]

\* Passwords a caller may type at login: any plaintext, or any string that is
\* currently stored in the hashed_password column.
PasswordInputs == RawPasswords \cup {ADMIN_PASSWORD} \cup {users[i].hashed_password : i \in 1..Len(users)}

\* POST /auth/login: the status the handler answers with
login(us, email_in, password) ==
    LET email == _normalize_email(_allow_local_email(email_in))
        u == UserByEmail(us, email)
    IN IF u = 0 \/ ~verify_password(password, us[u].hashed_password) THEN 401 ELSE 200

\* ------------------------------------------------------------------ actions

\* the wall clock moves on to a later instant
Tick(instants) ==
    /\ \E t \in instants : t > now /\ now' = t
    /\ UNCHANGED <<conf, users, reset_tokens, req, jwts, dashVars, txVars, regVars>>

\* POST /auth/register/student -> services.registration.create_student
register_student(email_in, password) ==
    /\ Len(users) < MaxUsers
    /\ LET email == _normalize_email(email_in)
       IN IF UserByEmail(users, email) # 0
          THEN UNCHANGED <<users, student_profiles>>
          ELSE /\ users' = Append(users, NewUser(strip_lower(email_in), password, "student"))
               /\ student_profiles' = Append(student_profiles, [user_id |-> Len(users) + 1])
    /\ UNCHANGED <<now, conf, reset_tokens, req, jwts, dashVars, txVars>>
    /\ UNCHANGED <<mentor_profiles, technologies, mentor_technologies, reg>>

\* POST /auth/register/mentor -> services.registration.create_mentor, for a
\* payload whose technologies list is empty (its default)
register_mentor(email_in, password) ==
    /\ Len(users) < MaxUsers
    /\ LET email == _normalize_email(email_in)
       IN IF UserByEmail(users, email) # 0
          THEN UNCHANGED <<users, mentor_profiles>>
          ELSE /\ users' = Append(users, NewUser(strip_lower(email_in), password, "mentor"))
               /\ mentor_profiles' = Append(mentor_profiles, [user_id |-> Len(users) + 1])
    /\ UNCHANGED <<now, conf, reset_tokens, req, jwts, dashVars, txVars>>
    /\ UNCHANGED <<student_profiles, technologies, mentor_technologies, reg>>

\* Depends(require_role(RoleEnum.admin)): the caller is an active admin
AdminCaller == \E i \in 1..Len(users) : users[i].role = "admin" /\ users[i].is_active

\* a seeding that promotes the first row instead of the row it looked up
seed_users_PromotesFirst(admin_email) ==
    LET u == UserByEmail(users, admin_email)
    IN IF u = 0
       THEN /\ Len(users) < MaxUsers
            /\ users' = Append(users, NewUser(admin_email, ADMIN_PASSWORD, "admin"))
       ELSE users' = [users EXCEPT ![1].role = "admin", ![1].is_active = TRUE]

\* main.py seed_admin, its effect on table users when the environment holds
\* admin_email: insert the admin if no row has that e-mail, else make the row
\* found an active admin
seed_users(admin_email) ==
    LET u == UserByEmail(users, admin_email)
    IN IF u = 0
       THEN /\ Len(users) < MaxUsers
            /\ users' = Append(users, NewUser(admin_email, ADMIN_PASSWORD, "admin"))
       ELSE users' = [users EXCEPT ![u].role = "admin", ![u].is_active = TRUE]

\* main.py startup hook
seed_admin ==
    /\ seed_users(ADMIN_EMAIL)
    /\ UNCHANGED <<now, conf, reset_tokens, req, jwts, dashVars, txVars, regVars>>

\* the application is started again over the same database with ADMIN_EMAIL
\* set to admin_email in its environment: main.py reads it at import and the
\* startup hook seeds before any request is served
Startup(admin_email) ==
    /\ ADMIN_EMAIL' = admin_email
    /\ seed_users(admin_email)
    /\ UNCHANGED <<now, ACCESS_SECRET, REFRESH_SECRET, tz_aware, reset_tokens, req, jwts, dashVars, txVars, regVars>>

\* an issuer that revokes the tokens the user already holds
generate_reset_token_RevokesEarlier(user_id) ==
    reset_tokens' = Append([i \in 1..Len(reset_tokens) |->
                               IF reset_tokens[i].user_id = user_id
                               THEN [reset_tokens[i] EXCEPT !.used = TRUE]
                               ELSE reset_tokens[i]],
        [id |-> Len(reset_tokens) + 1, user_id |-> user_id,
         expires_at |-> now + lifetime_minutes, used |-> FALSE])

\* routes/auth.py generate_reset_token: the raw token string is the row's id
generate_reset_token(user_id) ==
    reset_tokens' = Append(reset_tokens,
        [id |-> Len(reset_tokens) + 1, user_id |-> user_id,
         expires_at |-> now + lifetime_minutes, used |-> FALSE])

\* POST /auth/forgot
forgot(email_in) ==
    /\ Len(reset_tokens) < MaxTokens
    /\ LET email == _normalize_email(_allow_local_email(email_in))
           u == UserByEmail(users, email)
       IN IF u # 0
          THEN generate_reset_token(u)
          ELSE UNCHANGED reset_tokens
    /\ UNCHANGED <<now, conf, users, req, jwts, dashVars, txVars, regVars>>

\* POST /auth/forgot: what the caller sees (status, message, keys of the body)
forgot_response(us, email_in) ==
    LET email == _normalize_email(_allow_local_email(email_in))
    IN IF UserByEmail(us, email) # 0
       THEN [status |-> 200, message |-> "Reset token generated (dev)",
             keys |-> {"message", "token"}]
       ELSE [status |-> 200, message |-> "If the email exists, a reset link has been sent",
             keys |-> {"message"}]

\* db.query(PasswordResetToken).filter(token == data.token).first()
TokenRow(rts, token) == IF token \in 1..Len(rts) THEN rts[token] ELSE NoRow

\* the handler's acceptance test on the row it loaded (prt.id = 0: no row)
reset_rejects(prt, t) == prt.id = 0 \/ prt.used \/ prt.expires_at <= t

\* a rejection that burns the token it refuses
reset_raise_BurnsToken(r, token, detail) ==
    /\ req' = [req EXCEPT ![r] = [@ EXCEPT !.pc = "done", !.token = token,
                                            !.status = 400, !.detail = detail]]
    /\ reset_tokens' = [i \in 1..Len(reset_tokens) |->
                           IF i = token THEN [reset_tokens[i] EXCEPT !.used = TRUE]
                           ELSE reset_tokens[i]]
    /\ UNCHANGED users

\* prt.expires_at <= now with a timezone-aware now (datetime.now(timezone.utc))
\* and an expires_at that went through the DateTime column of models.py: the
\* column is declared without timezone, so the value is read back naive unless
\* the database keeps the offset itself, and Python refuses to order a naive
\* and an aware datetime.  The operands are only compared when the row exists
\* and is unused ("not prt or prt.used or ..." short-circuits).
reset_compare_raises(prt) == prt.id # 0 /\ ~prt.used /\ ~tz_aware

\* TypeError escapes the handler: 500, nothing was written
reset_error(r, token) ==
    /\ req' = [req EXCEPT ![r] = [@ EXCEPT !.pc = "done", !.token = token,
                                            !.status = 500, !.detail = "Internal Server Error"]]
    /\ UNCHANGED <<users, reset_tokens>>

\* raise HTTPException(status_code=400, detail=...): nothing was written
reset_raise(r, token, detail) ==
    /\ req' = [req EXCEPT ![r] = [@ EXCEPT !.pc = "done", !.token = token,
                                            !.status = 400, !.detail = detail]]
    /\ UNCHANGED <<users, reset_tokens>>

\* POST /auth/reset, first half: load the token row, read the clock, validate
\* the loaded row and load its user.  The column writes that follow stay
\* pending in the request's session until ResetCommit.
ResetBegin(r, token, new_password) ==
    /\ req[r].pc = "idle"
    /\ \A q \in 1..(r-1) : req[q].pc # "idle"      \* requests are numbered as they arrive
    /\ LET prt == TokenRow(reset_tokens, token)
       IN IF reset_compare_raises(prt)
          THEN reset_error(r, token)
          ELSE IF reset_rejects(prt, now)
          THEN reset_raise(r, token, "Invalid or expired token")
          ELSE IF prt.user_id \notin 1..Len(users)
          THEN reset_raise(r, token, "Invalid token")
          ELSE /\ req' = [req EXCEPT ![r] = [@ EXCEPT !.pc = "pending", !.token = token,
                                                       !.new_password = new_password]]
               /\ UNCHANGED <<users, reset_tokens>>
    /\ UNCHANGED <<now, conf, jwts, dashVars, txVars, regVars>>

\* a reset that retires every token of the user along with the one presented
ResetCommit_BurnsSiblings(r, salt) ==
    /\ req[r].pc = "pending"
    /\ users' = [users EXCEPT ![reset_tokens[req[r].token].user_id].hashed_password =
                                  hash_password(req[r].new_password, salt)]
    /\ reset_tokens' = [i \in 1..Len(reset_tokens) |->
                           IF reset_tokens[i].user_id = reset_tokens[req[r].token].user_id
                           THEN [reset_tokens[i] EXCEPT !.used = TRUE]
                           ELSE reset_tokens[i]]
    /\ req' = [req EXCEPT ![r] = [@ EXCEPT !.pc = "done", !.status = 200, !.new_password = <<>>,
                                            !.detail = "Password reset successful"]]
    /\ UNCHANGED <<now, conf, jwts, dashVars, txVars, regVars>>

\* POST /auth/reset, second half: flush both column writes and commit
ResetCommit(r, salt) ==
    /\ req[r].pc = "pending"
    /\ users' = [users EXCEPT ![reset_tokens[req[r].token].user_id].hashed_password =
                                  hash_password(req[r].new_password, salt)]
    /\ reset_tokens' = [reset_tokens EXCEPT ![req[r].token].used = TRUE]
    /\ req' = [req EXCEPT ![r] = [@ EXCEPT !.pc = "done", !.status = 200, !.new_password = <<>>,
                                            !.detail = "Password reset successful"]]
    /\ UNCHANGED <<now, conf, jwts, dashVars, txVars, regVars>>

\* ------------------------------------------------------- tokens (security.py)

\* dict.update: the entries of e are written over those of d
update(d, e) == [k \in (DOMAIN d) \cup (DOMAIN e) |-> IF k \in DOMAIN e THEN e[k] ELSE d[k]]

\* jwt.encode: the payload travels in clear, the signature is only
\* reproducible with the key
jwt_encode(payload, key) == [payload |-> payload, key |-> key]

\* a verifier that lets a token live through the instant of its expiry
jwt_decode_LateExpiry(token, key, t) ==
    IF token.key # key THEN "InvalidSignatureError"
    ELSE IF token.payload.iat > t THEN "ImmatureSignatureError"
    ELSE IF token.payload.exp < t THEN "ExpiredSignatureError"
    ELSE "ok"

\* jwt.decode(token, key, algorithms=[JWT_ALG]) at clock t: signature first,
\* then the registered claims iat and exp
jwt_decode(token, key, t) ==
    IF token.key # key THEN "InvalidSignatureError"
    ELSE IF token.payload.iat > t THEN "ImmatureSignatureError"
    ELSE IF token.payload.exp <= t THEN "ExpiredSignatureError"
    ELSE "ok"

Unauthorized(detail) == [status |-> 401, detail |-> detail, payload |-> NoClaims]
Decoded(payload) == [status |-> 200, detail |-> "", payload |-> payload]

access_payload(sub, extra, t) ==
    update([sub |-> sub, type |-> "access", iat |-> t, exp |-> t + ACCESS_MIN], extra)

refresh_payload(sub, extra, t) ==
    update([sub |-> sub, type |-> "refresh", iat |-> t, exp |-> t + REFRESH_DAYS * MinutesPerDay],
           extra)

decode_access(token, t) ==
    LET r == jwt_decode(token, ACCESS_SECRET, t)
    IN IF r = "ok"
       THEN IF token.payload.type # "access" THEN Unauthorized("Invalid token type")
            ELSE Decoded(token.payload)
       ELSE IF r = "ExpiredSignatureError" THEN Unauthorized("Token expired")
       ELSE Unauthorized("Invalid token")

decode_refresh_token(token, t) ==
    LET r == jwt_decode(token, REFRESH_SECRET, t)
    IN IF r = "ok"
       THEN IF token.payload.type # "refresh" THEN Unauthorized("Invalid token type")
            ELSE Decoded(token.payload)
       ELSE IF r = "ExpiredSignatureError" THEN Unauthorized("Refresh token expired")
       ELSE Unauthorized("Invalid refresh token")

\* a token handed out, remembered with the call that minted it
Issued(fn, sub, extra, token) == [fn |-> fn, sub |-> sub, extra |-> extra, token |-> token]

create_access_token(sub, extra) ==
    /\ Cardinality(jwts) < MaxJwts
    /\ jwts' = jwts \cup {Issued("create_access_token", sub, extra,
                             jwt_encode(access_payload(sub, extra, now), ACCESS_SECRET))}
    /\ UNCHANGED <<now, conf, users, reset_tokens, req, dashVars, txVars, regVars>>

create_refresh_token(sub, extra) ==
    /\ Cardinality(jwts) < MaxJwts
    /\ jwts' = jwts \cup {Issued("create_refresh_token", sub, extra,
                             jwt_encode(refresh_payload(sub, extra, now), REFRESH_SECRET))}
    /\ UNCHANGED <<now, conf, users, reset_tokens, req, dashVars, txVars, regVars>>

\* TokenPair(access_token=create_access_token(sub=...), refresh_token=...)
TokenPair(sub, t) ==
    [status |-> 200, detail |-> "",
     access_token |-> jwt_encode(access_payload(sub, NoClaims, t), ACCESS_SECRET),
     refresh_token |-> jwt_encode(refresh_payload(sub, NoClaims, t), REFRESH_SECRET)]

\* a refresh that hands the presented token back as the new refresh token
refresh_response_ReusesPresented(token, t) ==
    LET d == decode_refresh_token(token, t)
    IN IF d.status # 200 \/ d.payload.type # "refresh" \/ "sub" \notin DOMAIN d.payload
       THEN [status |-> 401, detail |-> "Invalid refresh token"]
       ELSE [TokenPair(d.payload.sub, t) EXCEPT !.refresh_token = token]

\* a refresh that looks the subject up and refuses a user that is gone or
\* inactive
refresh_response_ChecksUser(token, t) ==
    LET d == decode_refresh_token(token, t)
    IN IF d.status # 200 \/ d.payload.type # "refresh" \/ "sub" \notin DOMAIN d.payload
       THEN [status |-> 401, detail |-> "Invalid refresh token"]
       ELSE IF ~\E u \in 1..Len(users) : str(u) = d.payload.sub /\ users[u].is_active
       THEN [status |-> 401, detail |-> "Invalid refresh token"]
       ELSE TokenPair(d.payload.sub, t)

\* POST /auth/refresh at clock t: every exception of the decoding, of the type
\* test and of payload["sub"] is answered 401 "Invalid refresh token"
refresh_response(token, t) ==
    LET d == decode_refresh_token(token, t)
    IN IF d.status # 200 \/ d.payload.type # "refresh" \/ "sub" \notin DOMAIN d.payload
       THEN [status |-> 401, detail |-> "Invalid refresh token"]
       ELSE TokenPair(d.payload.sub, t)

NoExchange == [presented |-> jwt_encode(NoClaims, ""), at |-> 0,
               response |-> [status |-> 0, detail |-> ""]]

\* POST /auth/refresh with a token the caller holds; the handler reads the
\* clock and the secrets and writes nothing
refresh(token) ==
    /\ refresh_out' = [presented |-> token, at |-> now, response |-> refresh_response(token, now)]
    /\ UNCHANGED <<now, conf, users, reset_tokens, req, jwts, dashVars, hire_txn, dash_req, auth_out, regVars>>

\* ---------------------------------------------- admin dashboard (models.py)

\* Batch.status values written by the batch workflow
BatchStatuses == {"Completed", "Ongoing"}

\* AdminDashboard(): every counter column defaults to 0
NewDashboard ==
    [batches_completed_count |-> 0, students_hired |-> 0, no_of_students |-> 0,
     no_of_mentors |-> 0]

\* a recompute that only refreshes the hire counter
update_counts_OnlyHires(dashboard, id, us, bs, hs) ==
    [dashboard EXCEPT
        !.students_hired = Cardinality({i \in 1..Len(hs) : hs[i].dashboard_id = id})]

\* AdminDashboard.update_counts: the four counters after a rescan of the
\* tables us (users), bs (batches) and hs (students_hired)
update_counts(dashboard, id, us, bs, hs) ==
    [dashboard EXCEPT
        !.students_hired = Cardinality({i \in 1..Len(hs) : hs[i].dashboard_id = id}),
        !.batches_completed_count = Cardinality({i \in 1..Len(bs) : bs[i].status = "Completed"}),
        !.no_of_students = Cardinality({i \in 1..Len(us) : us[i].role = "student"}),
        !.no_of_mentors = Cardinality({i \in 1..Len(us) : us[i].role = "mentor"})]

\* GET /admin/dashboard
get_admin_dashboard ==
    /\ AdminCaller
    /\ IF dashboards = <<>>
       THEN dashboards' = Append(dashboards, NewDashboard)
       ELSE UNCHANGED dashboards
    /\ UNCHANGED <<now, conf, users, reset_tokens, req, jwts, batches, hires, txVars, regVars>>

\* a row of table batches is inserted by the batch workflow
InsertBatch(status) ==
    /\ Len(batches) < MaxBatches
    /\ batches' = Append(batches, [status |-> status])
    /\ UNCHANGED <<now, conf, users, reset_tokens, req, jwts, hires, dashboards, txVars, regVars>>

\* update_dashboard_counts: the listener's own session loads the dashboard the
\* new row references and recomputes it over the connection's view of the
\* tables (dashboard_id 0: NULL, or no such dashboard: nothing is written)
update_dashboard_counts(ds, dashboard_id, us, bs, hs) ==
    IF dashboard_id # 0 /\ dashboard_id \in 1..Len(ds)
    THEN [ds EXCEPT ![dashboard_id] = update_counts(ds[dashboard_id], dashboard_id, us, bs, hs)]
    ELSE ds

\* a row of table students_hired is inserted (dashboard_id 0: NULL); the
\* after_insert listener update_dashboard_counts runs inside the flush, on the
\* connection that has just inserted the row
InsertHire(dashboard_id) ==
    /\ Len(hires) < MaxHires
    /\ hires' = Append(hires, [dashboard_id |-> dashboard_id])
    /\ dashboards' = update_dashboard_counts(dashboards, dashboard_id, users, batches, hires')
    /\ UNCHANGED <<now, conf, users, reset_tokens, req, jwts, batches, txVars, regVars>>

\* a listener session that takes the connection's transaction over and ends it
joined_commit_ControlFully(durable, pending) == pending

\* db.commit() of Session(bind=connection) on a connection that is already in
\* the inserting session's transaction: the session joins that transaction for
\* rollback only, its commit flushes and is not propagated to the connection,
\* so what is durable stays what it was
joined_commit(durable, pending) == durable

NoTxn == [pc |-> "idle", dashboard_id |-> 0, counters |-> NewDashboard]

\* a transaction adds a StudentsHired row and flushes: INSERT, then the
\* after_insert listener on the same connection (recompute, db.commit())
HireFlush(dashboard_id) ==
    /\ hire_txn.pc # "flushed"
    /\ Len(hires) < MaxHires
    /\ LET hs == Append(hires, [dashboard_id |-> dashboard_id])
           ds == update_dashboard_counts(dashboards, dashboard_id, users, batches, hs)
           durable == joined_commit([hires |-> hires, dashboards |-> dashboards],
                                    [hires |-> hs, dashboards |-> ds])
       IN /\ hires' = durable.hires
          /\ dashboards' = durable.dashboards
          /\ hire_txn' = [pc |-> "flushed", dashboard_id |-> dashboard_id,
                          counters |-> IF dashboard_id \in 1..Len(ds) THEN ds[dashboard_id]
                                       ELSE NewDashboard]
    /\ UNCHANGED <<now, conf, users, reset_tokens, req, jwts, batches, regVars, refresh_out, dash_req, auth_out>>

\* the inserting transaction commits: the row and the listener's UPDATE become
\* durable together
HireCommit ==
    /\ hire_txn.pc = "flushed"
    /\ hires' = Append(hires, [dashboard_id |-> hire_txn.dashboard_id])
    /\ dashboards' = IF hire_txn.dashboard_id \in 1..Len(dashboards)
                     THEN [dashboards EXCEPT ![hire_txn.dashboard_id] = hire_txn.counters]
                     ELSE dashboards
    /\ hire_txn' = [hire_txn EXCEPT !.pc = "committed"]
    /\ UNCHANGED <<now, conf, users, reset_tokens, req, jwts, batches, regVars, refresh_out, dash_req, auth_out>>

\* the inserting transaction rolls back: everything written on its connection
\* since it began is discarded
HireRollback ==
    /\ hire_txn.pc = "flushed"
    /\ hire_txn' = [hire_txn EXCEPT !.pc = "rolled_back"]
    /\ UNCHANGED <<now, conf, users, reset_tokens, req, jwts, dashVars, regVars, refresh_out, dash_req, auth_out>>

\* ------------------------------- registration, step by step (transactions)

\* Technology.name.ilike(name): equality up to letter case (a name is a pair
\* of its letters and the case they are written in)
ilike(a, b) == a[1] = b[1]

\* services/registration.py _get_or_create_technologies over the rows the
\* session sees: visible (committed names) and those it has flushed itself.
\* one_or_none() raises when two rows match.
RECURSIVE _get_or_create_technologies(_, _, _)
_get_or_create_technologies(visible, names, acc) ==
    IF names = <<>> \/ acc.error THEN acc
    ELSE LET name == Head(names)
             rows == visible \o acc.created
             existing == {i \in 1..Len(rows) : ilike(rows[i], name)}
         IN IF Cardinality(existing) > 1
            THEN [acc EXCEPT !.error = TRUE]
            ELSE IF existing # {}
            THEN _get_or_create_technologies(visible, Tail(names),
                    [acc EXCEPT !.out = Append(@, rows[CHOOSE i \in existing : TRUE])])
            ELSE _get_or_create_technologies(visible, Tail(names),
                    [acc EXCEPT !.created = Append(@, name), !.out = Append(@, name)])

\* names stored in table technologies, in id order
TechnologyNames(ts) == [i \in 1..Len(ts) |-> ts[i].name]

\* id of the technologies row with this exact name
TechnologyId(ts, name) == CHOOSE i \in 1..Len(ts) : ts[i].name = name

\* e-mails of user rows other requests have inserted and not yet committed
PendingEmails(r) ==
    {reg[q].email : q \in {q \in Reqs : q # r /\ reg[q].pc \in {"user", "profile", "linked"}}}

\* names of technology rows other requests have inserted and not yet committed
PendingTechnologies(r) ==
    UNION {{reg[q].created[k] : k \in 1..Len(reg[q].created)} :
               q \in {q \in Reqs : q # r /\ reg[q].pc = "linked"}}

\* the request ends with an HTTP error; its session's pending rows are gone
reg_raise(r, status, detail) ==
    /\ reg' = [reg EXCEPT ![r] = [IdleReg EXCEPT !.pc = "done", !.kind = reg[r].kind,
                                                  !.status = status, !.detail = detail]]
    /\ UNCHANGED <<users, student_profiles, mentor_profiles, technologies, mentor_technologies>>

\* handler entry of POST /auth/register/student ("student"), POST
\* /auth/register/mentor ("mentor") or POST /admin/create-mentor ("admin"):
\* validate, normalise the e-mail, look for a user that has it.  The admin
\* handler then raises AttributeError while it builds the User (it reads
\* data.phoneNumber, the alias of MentorCreate.phone_number) and ends there.
RegBegin(r, kind, email_in, password, techs) ==
    /\ reg[r].pc = "idle"
    /\ \A q \in 1..(r-1) : reg[q].pc # "idle"
    /\ kind = "admin" => AdminCaller
    /\ kind # "mentor" => techs = <<>>
    /\ Len(users) < MaxUsers
    /\ LET email == IF kind = "admin" THEN _allow_local_email(email_in)
                    ELSE _normalize_email(email_in)
       IN IF UserByEmail(users, email) # 0
          THEN /\ reg' = [reg EXCEPT ![r] = [IdleReg EXCEPT !.pc = "done", !.kind = kind,
                             !.status = 400,
                             !.detail = IF kind = "admin" THEN "Email already exists"
                                        ELSE "Email already registered"]]
               /\ UNCHANGED <<users, student_profiles, mentor_profiles, technologies,
                              mentor_technologies>>
          ELSE IF kind = "admin"
          THEN /\ reg' = [reg EXCEPT ![r] = [IdleReg EXCEPT !.pc = "done", !.kind = kind,
                             !.status = 500, !.detail = "AttributeError"]]
               /\ UNCHANGED <<users, student_profiles, mentor_profiles, technologies,
                              mentor_technologies>>
          ELSE /\ reg' = [reg EXCEPT ![r] = [IdleReg EXCEPT !.pc = "checked", !.kind = kind,
                             !.email = email, !.password = password, !.technologies = techs]]
               /\ UNCHANGED <<users, student_profiles, mentor_profiles, technologies,
                              mentor_technologies>>
    /\ UNCHANGED <<now, conf, reset_tokens, req, jwts, dashVars, txVars>>

\* a flush that makes the user row durable at once
RegInsertUser_Commits(r) ==
    /\ reg[r].pc = "checked"
    /\ reg[r].kind \in {"student", "mentor"}
    /\ reg[r].email \notin PendingEmails(r)
    /\ IF UserByEmail(users, reg[r].email) # 0
       THEN reg_raise(r, 500, "IntegrityError: users.email")
       ELSE /\ Len(users) < MaxUsers
            /\ users' = Append(users, NewUser(reg[r].email, reg[r].password, reg[r].kind))
            /\ reg' = [reg EXCEPT ![r].pc = "user"]
            /\ UNCHANGED <<student_profiles, mentor_profiles, technologies, mentor_technologies>>
    /\ UNCHANGED <<now, conf, reset_tokens, req, jwts, dashVars, txVars>>

\* create_student / create_mentor: db.add(user); db.flush().  The INSERT waits
\* while another transaction holds an uncommitted row with the same e-mail, and
\* violates the unique index of users.email once such a row is committed.
RegInsertUser(r) ==
    /\ reg[r].pc = "checked"
    /\ reg[r].kind \in {"student", "mentor"}
    /\ reg[r].email \notin PendingEmails(r)
    /\ IF UserByEmail(users, reg[r].email) # 0
       THEN reg_raise(r, 500, "IntegrityError: users.email")
       ELSE /\ reg' = [reg EXCEPT ![r].pc = "user"]
            /\ UNCHANGED <<users, student_profiles, mentor_profiles, technologies,
                           mentor_technologies>>
    /\ UNCHANGED <<now, conf, reset_tokens, req, jwts, dashVars, txVars>>

\* create_mentor: db.add(mp); db.flush()
RegInsertProfile(r) ==
    /\ reg[r].pc = "user"
    /\ reg[r].kind = "mentor"
    /\ reg' = [reg EXCEPT ![r].pc = "profile"]
    /\ UNCHANGED <<users, student_profiles, mentor_profiles, technologies, mentor_technologies>>
    /\ UNCHANGED <<now, conf, reset_tokens, req, jwts, dashVars, txVars>>

\* create_mentor: techs = _get_or_create_technologies(...), then one pending
\* MentorTechnology per entry of techs
RegTechnologies(r) ==
    /\ reg[r].pc = "profile"
    /\ LET got == _get_or_create_technologies(TechnologyNames(technologies),
                      reg[r].technologies, [created |-> <<>>, out |-> <<>>, error |-> FALSE])
       IN /\ \A k \in 1..Len(got.created) : got.created[k] \notin PendingTechnologies(r)
          /\ IF got.error
             THEN reg_raise(r, 500, "MultipleResultsFound")
             ELSE /\ reg' = [reg EXCEPT ![r] = [@ EXCEPT !.pc = "linked",
                                !.created = got.created, !.out = got.out]]
                  /\ UNCHANGED <<users, student_profiles, mentor_profiles, technologies,
                                 mentor_technologies>>
    /\ UNCHANGED <<now, conf, reset_tokens, req, jwts, dashVars, txVars>>

\* the request ends with the response of a successful creation
reg_done(r, status) ==
    reg' = [reg EXCEPT ![r] = [IdleReg EXCEPT !.pc = "done", !.kind = reg[r].kind,
                                              !.status = status, !.detail = "created"]]

\* db.commit() of create_student (after db.add(profile)) and of create_mentor
\* (after the MentorTechnology adds): the rows still pending are flushed, then
\* everything the transaction wrote becomes durable
RegCommit(r) ==
    /\ Len(users) < MaxUsers
    /\ \/ /\ reg[r].kind = "student" /\ reg[r].pc = "user"
          /\ users' = Append(users, NewUser(reg[r].email, reg[r].password, "student"))
          /\ student_profiles' = Append(student_profiles, [user_id |-> Len(users) + 1])
          /\ reg_done(r, 201)
          /\ UNCHANGED <<mentor_profiles, technologies, mentor_technologies>>
       \/ /\ reg[r].kind = "mentor" /\ reg[r].pc = "linked"
          /\ IF \E j, k \in 1..Len(reg[r].out) : j # k /\ reg[r].out[j] = reg[r].out[k]
             THEN reg_raise(r, 500, "IntegrityError: uq_mentor_tech")
             ELSE /\ users' = Append(users, NewUser(reg[r].email, reg[r].password, "mentor"))
                  /\ mentor_profiles' = Append(mentor_profiles, [user_id |-> Len(users) + 1])
                  /\ technologies' = technologies \o
                        [k \in 1..Len(reg[r].created) |-> [name |-> reg[r].created[k]]]
                  /\ mentor_technologies' = mentor_technologies \o
                        [k \in 1..Len(reg[r].out) |->
                            [mentor_profile_id |-> Len(mentor_profiles) + 1,
                             technology_id |-> TechnologyId(technologies', reg[r].out[k])]]
                  /\ reg_done(r, 201)
                  /\ UNCHANGED student_profiles
    /\ UNCHANGED <<now, conf, reset_tokens, req, jwts, dashVars, txVars>>

\* a store round trip of the request raises (connection lost, statement
\* refused): create_student rolls back and re-raises, create_mentor lets the
\* exception leave the handler with its transaction uncommitted
RegFail(r) ==
    /\ reg[r].pc \in {"checked", "user", "profile", "linked"}
    /\ reg_raise(r, 500, "OperationalError")
    /\ UNCHANGED <<now, conf, reset_tokens, req, jwts, dashVars, txVars>>

\* ------------------------------ GET /admin/dashboard, step by step

\* GET /admin/dashboard, first half: db.query(AdminDashboard).first().  A
\* request that finds a row returns it; one that finds none goes on to create
DashRead(r) ==
    /\ AdminCaller
    /\ dash_req[r] = "idle"
    /\ \A q \in 1..(r-1) : dash_req[q] # "idle"
    /\ dash_req' = [dash_req EXCEPT ![r] = IF dashboards = <<>> THEN "creating" ELSE "done"]
    /\ UNCHANGED <<now, conf, users, reset_tokens, req, jwts, dashVars, hire_txn, refresh_out,
                   auth_out, regVars>>

\* GET /admin/dashboard, second half: db.add(AdminDashboard()); db.commit().
\* The table has no constraint besides its primary key.
DashCreate(r) ==
    /\ dash_req[r] = "creating"
    /\ dashboards' = Append(dashboards, NewDashboard)
    /\ dash_req' = [dash_req EXCEPT ![r] = "done"]
    /\ UNCHANGED <<now, conf, users, reset_tokens, req, jwts, batches, hires, hire_txn,
                   refresh_out, auth_out, regVars>>

\* ------------------------------------- protected routes (deps.py, routes)

NoCall == [route |-> "", presented |-> jwt_encode(NoClaims, ""),
           status |-> 0, detail |-> "", user |-> 0, data |-> 0]

\* what a dependency hands to the route: status 200 and the id of the user
\* row, or the HTTPException it raised
Resolved(u) == [status |-> 200, detail |-> "", user |-> u]
Raised(status, detail) == [status |-> status, detail |-> detail, user |-> 0]

\* a dependency that forgets the is_active test
get_current_user_SkipsActive(us, token, t) ==
    LET d == decode_access(token, t)
    IN IF d.status # 200 \/ "sub" \notin DOMAIN d.payload
       THEN Raised(401, "Invalid or expired access token")
       ELSE LET u == UserByEmail(us, d.payload.sub)
            IN IF u = 0
               THEN Raised(401, "Inactive or not found")
               ELSE Resolved(u)

\* deps.py get_current_user at clock t: decode the access token, take its
\* "sub" claim and look the user up by User.email == sub
get_current_user(us, token, t) ==
    LET d == decode_access(token, t)
    IN IF d.status # 200 \/ "sub" \notin DOMAIN d.payload
       THEN Raised(401, "Invalid or expired access token")
       ELSE LET u == UserByEmail(us, d.payload.sub)
            IN IF u = 0 \/ ~us[u].is_active
               THEN Raised(401, "Inactive or not found")
               ELSE Resolved(u)

\* a role dependency that lets every authenticated user through
require_role_AnyRole(us, token, t, required) ==
    get_current_user(us, token, t)

\* deps.py require_role(required)
require_role(us, token, t, required) ==
    LET a == get_current_user(us, token, t)
    IN IF a.status # 200 THEN a
       ELSE IF us[a.user].role # required THEN Raised(403, "Forbidden")
       ELSE a

\* routes/users.py _ensure_admin, applied to what get_current_user handed over
_ensure_admin(us, a) ==
    IF a.status # 200 THEN a
    ELSE IF us[a.user].role # "admin" THEN Raised(403, "Admin access required")
    ELSE a

\* the exchange as the caller sees it; data is the id of the user row whose
\* fields travel in the response body (0: none)
Call(route, token, a, data) ==
    [route |-> route, presented |-> token,
     status |-> a.status, detail |-> a.detail, user |-> a.user, data |-> data]

\* POST /auth/login: on success both tokens of the pair are handed out with
\* sub = str(user.id); a refused login writes nothing
Login(email_in, password) ==
    /\ Cardinality(jwts) + 2 <= MaxJwts
    /\ LET email == _normalize_email(_allow_local_email(email_in))
           u == UserByEmail(users, email)
       IN IF login(users, email_in, password) = 200
          THEN jwts' = jwts \cup
                 {Issued("login", str(u), [role |-> users[u].role],
                     jwt_encode(access_payload(str(u), [role |-> users[u].role], now),
                                ACCESS_SECRET)),
                  Issued("login", str(u), NoClaims,
                     jwt_encode(refresh_payload(str(u), NoClaims, now), REFRESH_SECRET))}
          ELSE UNCHANGED jwts
    /\ UNCHANGED <<now, conf, users, reset_tokens, req, dashVars, txVars, regVars>>

\* is_active is cleared in the database: no endpoint writes the column, but
\* deps.py and seed_admin both provide for a row whose flag is false
Deactivate(u) ==
    /\ u \in 1..Len(users)
    /\ users[u].is_active
    /\ users' = [users EXCEPT ![u].is_active = FALSE]
    /\ UNCHANGED <<now, conf, reset_tokens, req, jwts, dashVars, txVars, regVars>>

\* GET /users/me (GET /student/StudentDetails takes the same dependency and
\* returns the same row)
get_my_profile(token) ==
    /\ LET a == get_current_user(users, token, now)
       IN auth_out' = Call("/users/me", token, a, a.user)
    /\ UNCHANGED <<now, conf, users, reset_tokens, req, jwts, dashVars, hire_txn,
                   refresh_out, dash_req, regVars>>

\* GET /users/{user_id}
get_user_by_id(token, user_id) ==
    /\ LET a == _ensure_admin(users, get_current_user(users, token, now))
       IN IF a.status # 200
          THEN auth_out' = Call("/users/{user_id}", token, a, 0)
          ELSE IF user_id \notin 1..Len(users)
          THEN auth_out' = Call("/users/{user_id}", token,
                                [a EXCEPT !.status = 404, !.detail = "User not found"], 0)
          ELSE auth_out' = Call("/users/{user_id}", token, a, user_id)
    /\ UNCHANGED <<now, conf, users, reset_tokens, req, jwts, dashVars, hire_txn,
                   refresh_out, dash_req, regVars>>

\* POST /admin/create-mentor behind Depends(require_role(RoleEnum.admin)).
\* For an e-mail no user has, the handler builds User(email=data.email,
\* full_name=data.full_name, phone_number=data.phoneNumber, ...): MentorCreate
\* declares the field phone_number with alias "phoneNumber", and a pydantic
\* model has no attribute under its alias, so reading data.phoneNumber raises
\* AttributeError before hash_password is called and before db.add: the
\* request ends 500 and nothing is written.
create_mentor(token, email_in) ==
    /\ LET a == require_role(users, token, now, "admin")
           email == _allow_local_email(email_in)
       IN IF a.status # 200
          THEN auth_out' = Call("/admin/create-mentor", token, a, 0)
          ELSE IF UserByEmail(users, email) # 0
          THEN auth_out' = Call("/admin/create-mentor", token,
                                [a EXCEPT !.status = 400, !.detail = "Email already exists"], 0)
          ELSE auth_out' = Call("/admin/create-mentor", token,
                                [a EXCEPT !.status = 500, !.detail = "Internal Server Error"], 0)
    /\ UNCHANGED <<now, conf, users, reset_tokens, req, jwts, dashVars, hire_txn, refresh_out,
                   dash_req, regVars>>

\* GET /admin/dashboard behind Depends(require_role(RoleEnum.admin))
admin_dashboard(token) ==
    /\ LET a == require_role(users, token, now, "admin")
       IN /\ auth_out' = Call("/admin/dashboard", token, a, 0)
          /\ IF a.status = 200 /\ dashboards = <<>>
             THEN dashboards' = Append(dashboards, NewDashboard)
             ELSE UNCHANGED dashboards
    /\ UNCHANGED <<now, conf, users, reset_tokens, req, jwts, batches, hires, hire_txn,
                   refresh_out, dash_req, regVars>>

\* ------------------------------------------------------------ specification

\* State after construction: empty tables, nothing issued, no request in flight.
InitStore ==
    /\ now = 0
    /\ users = <<>>
    /\ reset_tokens = <<>>
    /\ req = [r \in Reqs |-> IdleReq]
    /\ jwts = {}
    /\ batches = <<>>
    /\ hires = <<>>
    /\ dashboards = <<>>
    /\ hire_txn = NoTxn
    /\ student_profiles = <<>>
    /\ mentor_profiles = <<>>
    /\ technologies = <<>>
    /\ mentor_technologies = <<>>
    /\ reg = [r \in Reqs |-> IdleReg]
    /\ refresh_out = NoExchange
    /\ dash_req = [r \in Reqs |-> "idle"]
    /\ auth_out = NoCall

\* config.py: the secrets fall back to two distinct defaults
DefaultSecrets ==
    /\ ACCESS_SECRET = "change-me-access"
    /\ REFRESH_SECRET = "change-me-refresh"

Init ==
    /\ InitStore
    /\ DefaultSecrets
    /\ ADMIN_EMAIL \in AdminEmails
    /\ tz_aware \in BOOLEAN

\* Credential life cycle: every way a user is created, one reset token, one
\* reset request at a time.
Next ==
    \/ Tick(Times)
    \/ \E e \in EmailInputs, p \in RawPasswords : register_student(e, p)
    \/ \E e \in EmailInputs, p \in RawPasswords : register_mentor(e, p)
    \/ seed_admin
    \/ \E e \in EmailInputs \cup AdminEmails : reset_tokens = <<>> /\ forgot(e)
    \/ \E t \in 0..Len(reset_tokens), p \in RawPasswords : ResetBegin(1, t, p)
    \/ \E s \in Salts : ResetCommit(1, s)

Spec == Init /\ [][Next]_vars

\* Reset flow under concurrency: one registered student and the seeded admin,
\* up to MaxTokens tokens and MaxReqs interleaved reset requests (the salt of
\* the new hash is immaterial here and held fixed; Spec varies it).
InitReset ==
    /\ InitStore
    /\ DefaultSecrets
    /\ ADMIN_EMAIL = <<"admin@x", "canon">>
    /\ tz_aware \in BOOLEAN

NextReset ==
    \/ Tick(Times)
    \/ \E e \in {"a@x"} \X EmailForms : register_student(e, <<1>>)
    \/ seed_admin
    \/ \E e \in ({"a@x"} \X EmailForms) \cup AdminEmails : forgot(e)
    \/ \E r \in Reqs, t \in 0..Len(reset_tokens), p \in RawPasswords : ResetBegin(r, t, p)
    \/ \E r \in Reqs : ResetCommit(r, 1)

SpecReset == InitReset /\ [][NextReset]_vars

\* Token issuer/verifier on its own: any pair of configured secrets, tokens
\* minted for any subject with any extra-claims map, the clock moving on.
InitTok ==
    /\ InitStore
    /\ ADMIN_EMAIL = <<"admin@x", "canon">>
    /\ tz_aware = FALSE
    /\ ACCESS_SECRET \in Secrets
    /\ REFRESH_SECRET \in Secrets

NextTok ==
    \/ Tick(TokTimes)
    \/ \E s \in Subjects, e \in ExtraMaps : create_access_token(s, e)
    \/ \E s \in Subjects, e \in ExtraMaps : create_refresh_token(s, e)

SpecTok == InitTok /\ [][NextTok]_vars

\* Dashboard counters: users of every role, batches, hire rows, dashboard reads.
InitDash ==
    /\ InitStore
    /\ DefaultSecrets
    /\ ADMIN_EMAIL = <<"admin@x", "canon">>
    /\ tz_aware = FALSE

NextDash ==
    \/ \E e \in EmailBases \X {"canon"} : register_student(e, <<1>>)
    \/ \E e \in EmailBases \X {"canon"} : register_mentor(e, <<1>>)
    \/ seed_admin
    \/ get_admin_dashboard
    \/ \E st \in BatchStatuses : InsertBatch(st)
    \/ \E d \in 0..Len(dashboards) : InsertHire(d)

SpecDash == InitDash /\ [][NextDash]_vars

\* Hire transactions: a hire row is flushed, then committed or rolled back,
\* while users, batches and dashboard reads go on.
NextHire ==
    \/ \E e \in EmailBases \X {"canon"} : register_student(e, <<1>>)
    \/ seed_admin
    \/ get_admin_dashboard
    \/ \E st \in BatchStatuses : InsertBatch(st)
    \/ \E d \in 0..Len(dashboards) : HireFlush(d)
    \/ HireCommit
    \/ HireRollback

SpecHire == InitDash /\ [][NextHire]_vars

\* Roles over restarts: every way a user is created, resets, dashboard reads,
\* and restarts of the application with any ADMIN_EMAIL in its environment.
NextSeed ==
    \/ \E e \in EmailInputs : register_student(e, <<1>>)
    \/ \E e \in EmailInputs : register_mentor(e, <<1>>)
    \/ \E e \in EmailInputs \cup AdminEmails : Startup(e)
    \/ \E e \in EmailInputs : reset_tokens = <<>> /\ forgot(e)
    \/ \E t \in 0..Len(reset_tokens) : ResetBegin(1, t, <<2>>)
    \/ ResetCommit(1, 1)
    \/ get_admin_dashboard

SpecSeed == Init /\ [][NextSeed]_vars

\* technology names typed by mentors: letters and the case they are written in
TechLists == {<<>>, << <<"py", "lower">> >>, << <<"py", "upper">> >>,
              << <<"py", "lower">>, <<"py", "upper">> >>}
RegEmails == {<<"a@x", "canon">>, <<"a@x", "mixed">>, <<"b@x", "canon">>}

\* Registrations step by step and interleaved: three kinds of creation
\* request, each a check, flushes and one commit, any of which may raise.
NextReg ==
    \/ seed_admin
    \/ \E r \in Reqs, e \in RegEmails : RegBegin(r, "student", e, <<1>>, <<>>)
    \/ \E r \in Reqs, e \in RegEmails, ts \in TechLists : RegBegin(r, "mentor", e, <<1>>, ts)
    \/ \E r \in Reqs, e \in RegEmails : RegBegin(r, "admin", e, <<1>>, <<>>)
    \/ \E r \in Reqs : RegInsertUser(r)
    \/ \E r \in Reqs : RegInsertProfile(r)
    \/ \E r \in Reqs : RegTechnologies(r)
    \/ \E r \in Reqs : RegCommit(r)
    \/ \E r \in Reqs : RegFail(r)

SpecReg == InitDash /\ [][NextReg]_vars

\* Refresh flow: refresh and access tokens are minted, the clock moves on, and
\* any token handed out so far is presented to POST /auth/refresh.
RefreshExtras == {NoClaims, [role |-> "student"], [sub |-> "2"]}
\* clock instants around the expiry of access and refresh tokens minted at 0
RefreshTimes == {0, 239, 240, 10079, 10080}

NextRefresh ==
    \/ Tick(RefreshTimes)
    \/ \E s \in Subjects, e \in RefreshExtras : create_access_token(s, e)
    \/ \E s \in Subjects, e \in RefreshExtras : create_refresh_token(s, e)
    \/ \E j \in jwts : refresh(j.token)

SpecRefresh == InitDash /\ [][NextRefresh]_vars

\* Dashboard reads step by step and interleaved, among registrations, batches
\* and hire inserts.
NextSingle ==
    \/ seed_admin
    \/ \E e \in EmailBases \X {"canon"} : register_student(e, <<1>>)
    \/ \E st \in BatchStatuses : InsertBatch(st)
    \/ \E d \in 0..Len(dashboards) : InsertHire(d)
    \/ \E r \in Reqs : DashRead(r)
    \/ \E r \in Reqs : DashCreate(r)

SpecSingle == InitDash /\ [][NextSingle]_vars

\* Protected routes: the seeded admin and one student; logins (which hand out
\* an access and a refresh token with sub = str(user.id)), access tokens
\* signed with the access secret whose subject is a user's e-mail, with or
\* without a role claim, the clock passing the access expiry, users
\* deactivated, and every token handed out presented to the protected routes.
AuthEmails == {<<"a@x", "canon">>, <<"admin@x", "canon">>}
AuthExtras == {NoClaims, [role |-> "admin"]}
AuthTimes == {0, 240}

NextAuth ==
    \/ Tick(AuthTimes)
    \/ seed_admin
    \/ register_student(<<"a@x", "canon">>, <<1>>)
    \/ \E u \in 1..Len(users) : Deactivate(u)
    \/ \E e \in AuthEmails, p \in {<<1>>, ADMIN_PASSWORD} : Login(e, p)
    \/ \E s \in AuthEmails, e \in AuthExtras : create_access_token(s, e)
    \/ \E j \in jwts : get_my_profile(j.token)
    \/ \E j \in jwts, id \in {1, Len(users) + 1} : get_user_by_id(j.token, id)
    \/ \E j \in jwts, e \in {<<"b@x", "canon">>, <<"a@x", "canon">>} : create_mentor(j.token, e)
    \/ \E j \in jwts : admin_dashboard(j.token)

SpecAuth == InitDash /\ [][NextAuth]_vars

\* Sessions against a changing store: the seeded admin logs in, a refresh
\* token is minted for an id no user has, the admin's password is reset, the
\* admin is deactivated, the clock passes the access and the refresh expiry,
\* and every token handed out is presented to POST /auth/refresh and to a
\* protected route.
SessionTimes == {0, 240, 10080}

NextSession ==
    \/ Tick(SessionTimes)
    \/ seed_admin
    \/ Login(<<"admin@x", "canon">>, ADMIN_PASSWORD)
    \/ create_refresh_token(str(2), NoClaims)
    \/ \E u \in 1..Len(users) : Deactivate(u)
    \/ reset_tokens = <<>> /\ forgot(<<"admin@x", "canon">>)
    \/ \E t \in 0..Len(reset_tokens) : ResetBegin(1, t, <<2>>)
    \/ ResetCommit(1, 1)
    \/ \E j \in jwts : refresh(j.token)
    \/ \E j \in jwts : get_my_profile(j.token)

SpecSession == InitReset /\ [][NextSession]_vars

\* Reset tokens side by side: the admin is seeded and a student registers,
\* tokens are issued to both for any spelling of the address (and asked for
\* an address nobody has), the clock moves, and up to MaxReqs reset requests
\* run interleaved.
NextIssue ==
    \/ Tick({0, 30})
    \/ seed_admin
    \/ register_student(<<"a@x", "mixed">>, <<1>>)
    \/ \E e \in EmailInputs \cup {<<"admin@x", "canon">>} : forgot(e)
    \/ \E r \in Reqs, t \in 0..Len(reset_tokens) : ResetBegin(r, t, <<2>>)
    \/ \E r \in Reqs : ResetCommit(r, 1)

SpecIssue == InitReset /\ [][NextIssue]_vars

\* ------------------------------------------------------------------ claims

\* Requests of POST /auth/reset that completed successfully on token t
Succeeded(t) == {r \in Reqs : req[r].pc = "done" /\ req[r].token = t /\ req[r].status = 200}

\* C1: of the reset requests that carry the same unused, unexpired token and
\* run interleaved, exactly one succeeds; the password is changed by one
\* request only.
C1_ExactlyOneSucceeds ==
    \A t \in 1..Len(reset_tokens) : Cardinality(Succeeded(t)) <= 1

\* C2: consume_reset applied twice in sequence to one token: the call that
\* finds the token unused and unexpired goes through, and on its commit the
\* token is marked used and the user's password is a hash of the new password;
\* a call that arrives once the token is used is answered 400 "Invalid or
\* expired token", whatever password it carries and however soon it arrives.
C2_TwiceInSequence ==
    [][\A r \in Reqs :
        /\ (req[r].pc = "idle" /\ req'[r].pc # "idle") =>
              LET prt == TokenRow(reset_tokens, req'[r].token)
              IN /\ (prt.id # 0 /\ prt.used) =>
                       /\ req'[r].pc = "done"
                       /\ req'[r].status = 400
                       /\ req'[r].detail = "Invalid or expired token"
                 /\ (prt.id # 0 /\ ~prt.used /\ now < prt.expires_at) => req'[r].pc = "pending"
        /\ (req[r].pc = "pending" /\ req'[r].pc = "done") =>
              /\ req'[r].status = 200
              /\ reset_tokens'[req[r].token].used
              /\ \E s \in Salts :
                    users'[reset_tokens[req[r].token].user_id].hashed_password
                        = hash_password(req[r].new_password, s)
      ]_vars

\* C2 witness: two calls on one token, the first answered 200 and the second
\* 400 while the token is still unexpired.
C2_Witness ==
    \E t \in 1..Len(reset_tokens) : \E r1, r2 \in Reqs :
        /\ r1 < r2
        /\ req[r1].pc = "done" /\ req[r1].token = t /\ req[r1].status = 200
        /\ req[r2].pc = "done" /\ req[r2].token = t /\ req[r2].status = 400
        /\ now < reset_tokens[t].expires_at

\* C3: after a successful consume_reset for user u with new password p, a
\* login with u's email and p succeeds, and a login with a password that was
\* accepted before the reset (and differs from p) fails.
C3_LoginAfterReset ==
    [][(req[1].pc = "pending" /\ req'[1].pc = "done") =>
          LET u == reset_tokens[req[1].token].user_id
              p == req[1].new_password
          IN /\ login(users', users[u].email, p) = 200
             /\ \A q \in PasswordInputs :
                   (q # p /\ verify_password(q, users[u].hashed_password)) =>
                       login(users', users[u].email, q) = 401
      ]_vars

\* C4: for every password p and hash h = hash_password(p), verify_password(p, h)
\* is true and verify_password(q, h) is false for every other q; a user whose
\* stored credential is such a hash logs in with p.
C4_HashVerify ==
    \A i \in 1..Len(users) : \A p \in RawPasswords : \A s \in Salts :
        users[i].hashed_password = hash_password(p, s) =>
            /\ verify_password(p, users[i].hashed_password)
            /\ \A q \in PasswordInputs : q # p => ~verify_password(q, users[i].hashed_password)
            /\ login(users, users[i].email, p) = 200

\* C5: a consume_reset that fails (token not found, already used, or expired)
\* leaves the store unchanged: no user row and no token row changes.
C5_FailureNoMutation ==
    [][\A r \in Reqs :
        (req[r].pc # "done" /\ req'[r].pc = "done" /\ req'[r].status # 200) =>
            /\ users' = users
            /\ reset_tokens' = reset_tokens
      ]_vars

\* C5 witness: a request was refused on a token that exists, was never used
\* and has expired.
C5_Witness ==
    \E r \in Reqs :
        /\ req[r].pc = "done" /\ req[r].status = 400
        /\ req[r].token \in 1..Len(reset_tokens)
        /\ ~reset_tokens[req[r].token].used
        /\ reset_tokens[req[r].token].expires_at <= now

\* C6: a token minted by create_refresh_token is rejected by decode_access and
\* a token minted by create_access_token (whatever type its extra claims give
\* it) is rejected by decode_refresh_token, for every extra-claims map and
\* every pair of secrets, equal ones included.
C6_TypesDoNotCross ==
    \A j \in jwts :
        /\ j.fn = "create_refresh_token" => decode_access(j.token, now).status = 401
        /\ j.fn = "create_access_token" => decode_refresh_token(j.token, now).status = 401

\* tokens of create_access_token that are access tokens issued at their iat:
\* the extra claims left type alone and put no iat in the future
AccessIssued == {j \in jwts : /\ j.fn = "create_access_token"
                              /\ j.token.payload.type = "access"
                              /\ "iat" \notin DOMAIN j.extra}

\* C7: an access token with expiry exp is accepted by decode_access at every
\* clock value before exp, refused as "Token expired" at exp and at every later
\* clock value, and once refused is never accepted again.
C7_ValidUntilExp ==
    /\ [](\A j \in AccessIssued :
            /\ now < j.token.payload.exp => decode_access(j.token, now).status = 200
            /\ now >= j.token.payload.exp =>
                  decode_access(j.token, now) = Unauthorized("Token expired"))
    /\ [][\A j \in AccessIssued :
            decode_access(j.token, now).status = 401 => decode_access(j.token, now').status = 401
         ]_vars

\* C7 witness: a token that was valid one instant before its expiry now sits
\* exactly at its expiry and is refused as expired.
C7_Witness ==
    \E j \in AccessIssued :
        /\ now = j.token.payload.exp
        /\ j.token.payload.iat < now
        /\ decode_access(j.token, 239).status = 200
        /\ decode_access(j.token, now).detail = "Token expired"

\* C8: before expiry, decode_access(create_access_token(s, e)) returns claims
\* with sub = s, type = "access", an iat, an exp and every entry of e, for every
\* extra-claims map e; likewise for refresh tokens with type = "refresh".
C8_RoundTrip ==
    \A j \in jwts :
        now < j.token.payload.exp =>
            LET access == j.fn = "create_access_token"
                d == IF access THEN decode_access(j.token, now)
                     ELSE decode_refresh_token(j.token, now)
            IN /\ d.status = 200
               /\ d.payload.sub = j.sub
               /\ d.payload.type = (IF access THEN "access" ELSE "refresh")
               /\ {"iat", "exp"} \subseteq DOMAIN d.payload
               /\ \A k \in DOMAIN j.extra : d.payload[k] = j.extra[k]

\* C9: in every reachable state the four stored counters of every
\* AdminDashboard row equal the current counts of hire rows referencing it,
\* completed batches, students and mentors.
C9_CountersAreCurrent ==
    \A d \in 1..Len(dashboards) :
        dashboards[d] = update_counts(dashboards[d], d, users, batches, hires)

\* C10: the step that inserts a StudentsHired row referencing an existing
\* dashboard d leaves all four counters of d equal to a full rescan of the
\* tables, the new row included, whatever the counters held before.
C10_InsertRescans ==
    [][\A d \in 1..Len(dashboards) :
          (Len(hires') = Len(hires) + 1 /\ hires'[Len(hires')].dashboard_id = d) =>
              /\ dashboards'[d].students_hired
                    = Cardinality({i \in 1..Len(hires') : hires'[i].dashboard_id = d})
              /\ dashboards'[d].batches_completed_count
                    = Cardinality({i \in 1..Len(batches') : batches'[i].status = "Completed"})
              /\ dashboards'[d].no_of_students
                    = Cardinality({i \in 1..Len(users') : users'[i].role = "student"})
              /\ dashboards'[d].no_of_mentors
                    = Cardinality({i \in 1..Len(users') : users'[i].role = "mentor"})
      ]_vars

\* C10 witness: a dashboard whose counters were created as zeros shows, after
\* a hire insert, the hire, a completed batch and a student that were all
\* there before the insert.
C10_Witness ==
    \E d \in 1..Len(dashboards) :
        /\ hires # <<>> /\ hires[Len(hires)].dashboard_id = d
        /\ dashboards[d].students_hired >= 1
        /\ dashboards[d].batches_completed_count >= 1
        /\ dashboards[d].no_of_students >= 1

\* C11: the insert of a hire row referencing a dashboard and the recompute of
\* that dashboard are one atomic unit.  The flush (INSERT, listener, the
\* listener's own commit) makes nothing durable; the step that makes the row
\* durable makes the recomputed counters durable with it; a rollback after
\* the flush leaves neither the row nor the recomputed counters behind.
C11_HireAtomic ==
    [][/\ (hire_txn.pc # "flushed" /\ hire_txn'.pc = "flushed") =>
             hires' = hires /\ dashboards' = dashboards
       /\ Len(hires') > Len(hires) =>
             LET d == hires'[Len(hires')].dashboard_id
             IN d \in 1..Len(dashboards) =>
                   /\ dashboards'[d] = hire_txn.counters
                   /\ dashboards'[d].students_hired
                         = Cardinality({i \in 1..Len(hires') : hires'[i].dashboard_id = d})
       /\ (hire_txn.pc = "flushed" /\ hire_txn'.pc = "rolled_back") =>
             hires' = hires /\ dashboards' = dashboards
       /\ (dashboards' # dashboards /\ Len(dashboards') = Len(dashboards)) =>
             Len(hires') > Len(hires)
      ]_vars

\* C11 witness: a first hire transaction on dashboard 1 was committed and
\* counted, a second one was flushed and rolled back and left no trace.
C11_Witness ==
    /\ hire_txn.pc = "rolled_back"
    /\ hire_txn.dashboard_id = 1
    /\ hire_txn.counters.students_hired = 2
    /\ Len(hires) = 1
    /\ dashboards # <<>>
    /\ dashboards[1].students_hired = 1

\* C12: every stored credential is an output of the password hasher: after
\* self-registration, admin mentor creation, admin seeding or a reset with
\* plaintext p, the user's hashed_password is hash_password(p, salt) for some
\* salt, and so never equals p.
C12_CredentialsHashed ==
    \A i \in 1..Len(users) :
        /\ \E p \in RawPasswords \cup {ADMIN_PASSWORD}, s \in Salts :
              users[i].hashed_password = hash_password(p, s)
        /\ users[i].hashed_password \notin RawPasswords \cup {ADMIN_PASSWORD}

\* C13 as claimed: the role stored for a user never changes after the user
\* record is created, whatever operation runs, startup seeding included.
C13_RoleImmutable ==
    [][\A i \in 1..Len(users) : users'[i].role = users[i].role]_vars

\* C13 amended: user rows are never removed, and a stored role changes in one
\* way only: a startup promotes to admin the user whose e-mail equals the
\* ADMIN_EMAIL the application was started with.
C13_RoleChangesOnlyAtSeed ==
    [][/\ Len(users') >= Len(users)
       /\ \A i \in 1..Len(users) :
             users'[i].role # users[i].role =>
                 /\ users[i].email = ADMIN_EMAIL'
                 /\ users'[i].role = "admin"
                 /\ users'[i].email = users[i].email
                 /\ users'[i].hashed_password = users[i].hashed_password
      ]_vars

\* C13 witness: the second user registered itself (its credential is the
\* plaintext it typed, not ADMIN_PASSWORD) and was then promoted by a startup.
C13_Witness ==
    /\ Len(users) = 2
    /\ users[2].role = "admin"
    /\ users[2].email = ADMIN_EMAIL
    /\ users[2].hashed_password = <<1>>

\* C14: no two user records share an e-mail, whatever the interleaving of the
\* three creation requests; and a creation request that ends at its check, or
\* later while a user already holds its normalized e-mail, ends with the
\* duplicate-email error (400) and creates no user and no profile.  (Requests that end on a store
\* failure of their own are left aside.)
C14_UniqueEmailDuplicateError ==
    /\ [](\A i, j \in 1..Len(users) : users[i].email = users[j].email => i = j)
    /\ [][\A r \in Reqs :
            (/\ reg[r].pc # "done" /\ reg'[r].pc = "done"
             /\ \/ reg[r].pc = "idle"
                \/ UserByEmail(users, reg[r].email) # 0
             /\ reg'[r].detail # "OperationalError") =>
                /\ reg'[r].status = 400
                /\ reg'[r].detail \in {"Email already registered", "Email already exists"}
                /\ users' = users
                /\ student_profiles' = student_profiles
                /\ mentor_profiles' = mentor_profiles
         ]_vars

\* C15: the response of POST /auth/forgot is the same whether or not a user
\* has the requested e-mail (status, message and shape of the body), and a
\* token row is only ever persisted for a user that exists.
C15_ForgotDoesNotReveal ==
    /\ [](\A e1, e2 \in EmailInputs \cup AdminEmails :
             forgot_response(users, e1) = forgot_response(users, e2))
    /\ [][Len(reset_tokens') > Len(reset_tokens) =>
             reset_tokens'[Len(reset_tokens')].user_id \in 1..Len(users)]_vars

\* C16: the three failure causes of consume_reset produce one caller-visible
\* outcome: whether the token is not found, already used or expired when the
\* handler loads it, the request ends with status 400 and detail "Invalid or
\* expired token".
C16_FailureCausesIndistinguishable ==
    [][\A r \in Reqs :
        (req[r].pc = "idle" /\ req'[r].pc # "idle") =>
            LET prt == TokenRow(reset_tokens, req'[r].token)
                not_found == prt.id = 0
                used == prt.id # 0 /\ prt.used
                expired == prt.id # 0 /\ prt.expires_at <= now
            IN (not_found \/ used \/ expired) =>
                  /\ req'[r].pc = "done"
                  /\ <<req'[r].status, req'[r].detail>> = <<400, "Invalid or expired token">>
      ]_vars

\* C16 witness: one request was refused for a token that does not exist and
\* another for a token that exists, is unused and has expired; both carry the
\* same status and detail.
C16_Witness ==
    \E r1, r2 \in Reqs :
        /\ req[r1].pc = "done" /\ req[r1].token = 0
        /\ req[r2].pc = "done" /\ req[r2].token \in 1..Len(reset_tokens)
        /\ ~reset_tokens[req[r2].token].used
        /\ reset_tokens[req[r2].token].expires_at <= now
        /\ <<req[r1].status, req[r1].detail>> = <<req[r2].status, req[r2].detail>>
        /\ req[r1].status = 400

\* C17: a reset token's used flag starts false and never goes back to false,
\* its expires_at (and owner) never change, the acceptance test lets through
\* only a token that is unused and unexpired, and no request succeeds on a
\* token that is already used.
C17_UsedMonotoneNeverReaccepted ==
    [][/\ Len(reset_tokens') >= Len(reset_tokens)
       /\ \A t \in 1..Len(reset_tokens) :
             /\ reset_tokens[t].used => reset_tokens'[t].used
             /\ reset_tokens'[t].expires_at = reset_tokens[t].expires_at
             /\ reset_tokens'[t].user_id = reset_tokens[t].user_id
       /\ \A t \in (Len(reset_tokens) + 1)..Len(reset_tokens') : ~reset_tokens'[t].used
       /\ \A r \in Reqs :
             /\ (req[r].pc = "idle" /\ req'[r].pc = "pending") =>
                   /\ ~reset_tokens[req'[r].token].used
                   /\ now < reset_tokens[req'[r].token].expires_at
             /\ (req[r].pc = "pending" /\ req'[r].pc = "done" /\ req'[r].status = 200) =>
                   ~reset_tokens[req[r].token].used
      ]_vars

\* C18: presenting a valid, unexpired refresh token whose sub is s to POST
\* /auth/refresh returns 200 with an access token and a refresh token that are
\* minted at that moment, decode with their own verifier and carry sub = s;
\* the exchange changes nothing the verifier reads, so the presented token is
\* still accepted afterwards and at every clock value before its own expiry.
C18_RefreshKeepsPresented ==
    /\ [](LET p == refresh_out.presented
              r == refresh_out.response
          IN decode_refresh_token(p, refresh_out.at).status = 200 =>
                /\ r.status = 200
                /\ r.refresh_token.payload.iat = refresh_out.at
                /\ r.access_token.payload.iat = refresh_out.at
                /\ decode_access(r.access_token, refresh_out.at).status = 200
                /\ decode_access(r.access_token, refresh_out.at).payload.sub = p.payload.sub
                /\ decode_refresh_token(r.refresh_token, refresh_out.at).status = 200
                /\ decode_refresh_token(r.refresh_token, refresh_out.at).payload.sub
                      = p.payload.sub
                /\ (now < p.payload.exp =>
                      /\ decode_refresh_token(p, now).status = 200
                      /\ refresh_response(p, now).status = 200))
    /\ [][refresh_out' # refresh_out => (conf' = conf /\ jwts' = jwts)]_vars

\* C18 witness: a refresh token minted at 0 was exchanged at 239, the exchange
\* returned a pair for its subject, and one instant before its expiry it is
\* still accepted.
C18_Witness ==
    /\ refresh_out.at = 239
    /\ refresh_out.response.status = 200
    /\ refresh_out.presented.payload.iat = 0
    /\ refresh_out.response.refresh_token.payload.sub = refresh_out.presented.payload.sub
    /\ now = refresh_out.presented.payload.exp - 1
    /\ refresh_response(refresh_out.presented, now).status = 200

\* C19: table admin_dashboard never holds more than one row, whatever the
\* interleaving of GET /admin/dashboard requests, and a request whose read
\* finds a row returns it without creating another.
C19_DashboardSingleton ==
    /\ [](Len(dashboards) <= 1)
    /\ [][\A r \in Reqs :
            (dash_req[r] = "idle" /\ dash_req'[r] # "idle" /\ dashboards # <<>>) =>
                (dash_req'[r] = "done" /\ dashboards' = dashboards)
         ]_vars

\* the five tables a registration writes
RegTables == <<users, student_profiles, mentor_profiles, technologies, mentor_technologies>>

\* C20: student and mentor registration are all-or-nothing.  A step of a
\* registration request that does not end it, and a step that ends it with an
\* error, leave the five tables as they were; the step that ends a student
\* registration successfully adds the user together with its profile, and the
\* one that ends a mentor registration adds the user, its profile, the new
\* technologies and one link per requested technology; no row of these tables
\* is ever removed.
C20_RegistrationAllOrNothing ==
    [][/\ \A r \in Reqs :
            (reg'[r] # reg[r] /\ reg[r].kind # "admin" /\ reg'[r].kind # "admin") =>
                IF reg'[r].pc = "done" /\ reg'[r].status = 201
                THEN /\ users' = Append(users, NewUser(reg[r].email, reg[r].password, reg[r].kind))
                     /\ reg[r].kind = "student" =>
                           /\ student_profiles' = Append(student_profiles, [user_id |-> Len(users')])
                           /\ UNCHANGED <<mentor_profiles, technologies, mentor_technologies>>
                     /\ reg[r].kind = "mentor" =>
                           /\ mentor_profiles' = Append(mentor_profiles, [user_id |-> Len(users')])
                           /\ student_profiles' = student_profiles
                           /\ Len(mentor_technologies')
                                = Len(mentor_technologies) + Len(reg[r].technologies)
                           /\ \A k \in 1..Len(reg[r].technologies) :
                                LET link == mentor_technologies'[Len(mentor_technologies) + k]
                                IN /\ link.mentor_profile_id = Len(mentor_profiles')
                                   /\ link.technology_id \in 1..Len(technologies')
                                   /\ ilike(technologies'[link.technology_id].name,
                                            reg[r].technologies[k])
                ELSE RegTables' = RegTables
       /\ Len(student_profiles') >= Len(student_profiles)
       /\ Len(mentor_profiles') >= Len(mentor_profiles)
       /\ \A i \in 1..Len(student_profiles) : student_profiles'[i] = student_profiles[i]
       /\ \A i \in 1..Len(mentor_profiles) : mentor_profiles'[i] = mentor_profiles[i]
       /\ \A i \in 1..Len(users) : users'[i].email = users[i].email
      ]_vars

\* C20 witness: one mentor registration went through its flushes and failed at
\* commit on a link insert, another one committed; the store holds exactly the
\* rows of the one that committed.
C20_Witness ==
    \E r1, r2 \in Reqs :
        /\ reg[r1].pc = "done" /\ reg[r1].kind = "mentor"
        /\ reg[r1].detail = "IntegrityError: uq_mentor_tech"
        /\ reg[r2].pc = "done" /\ reg[r2].kind = "mentor" /\ reg[r2].status = 201
        /\ Len(mentor_profiles) = 1
        /\ Len(technologies) = 1
        /\ Len(mentor_technologies) = 1
        /\ Cardinality({i \in 1..Len(users) : users[i].role = "mentor"}) = 1

\* C24: POST /auth/forgot for an email that matches a user once trimmed and
\* lowercased adds exactly one reset token row, owned by that user, unused and
\* expiring lifetime_minutes after the instant of issue, and changes nothing
\* else: no user row and no token row issued before.
C24_ForgotAddsOneToken ==
    [][\A e \in EmailInputs \cup AdminEmails :
        LET u == UserByEmail(users, strip_lower(e))
        IN (forgot(e) /\ u # 0) =>
              /\ Len(reset_tokens') = Len(reset_tokens) + 1
              /\ reset_tokens'[Len(reset_tokens')].user_id = u
              /\ reset_tokens'[Len(reset_tokens')].used = FALSE
              /\ reset_tokens'[Len(reset_tokens')].expires_at = now + lifetime_minutes
              /\ \A i \in 1..Len(reset_tokens) : reset_tokens'[i] = reset_tokens[i]
              /\ users' = users
      ]_vars

\* C24 witness: a user holds two tokens issued at different instants, the
\* later one issued after the earlier one was consumed; the earlier row still
\* carries its own expiry and the later one is unused.
C24_Witness ==
    \E t1, t2 \in 1..Len(reset_tokens) :
        /\ t1 < t2
        /\ reset_tokens[t1].user_id = reset_tokens[t2].user_id
        /\ reset_tokens[t1].expires_at < reset_tokens[t2].expires_at
        /\ reset_tokens[t1].used
        /\ ~reset_tokens[t2].used
        /\ reset_tokens[t2].expires_at = now + lifetime_minutes

\* C25: consume_reset succeeds only strictly before the expiry: a request
\* that arrives on an existing unused token (whose user exists) is accepted
\* when now < expires_at and is refused when now = expires_at and at every
\* later instant.
C25_SucceedsStrictlyBeforeExpiry ==
    [][\A r \in Reqs :
        (req[r].pc = "idle" /\ req'[r].pc # "idle") =>
            LET prt == TokenRow(reset_tokens, req'[r].token)
            IN (prt.id # 0 /\ ~prt.used) =>
                  /\ now < prt.expires_at => req'[r].pc = "pending"
                  /\ now >= prt.expires_at =>
                        /\ req'[r].pc = "done"
                        /\ req'[r].status = 400
      ]_vars

C21_LoginTokenResolvesUser ==
    \A j \in jwts : \A u \in 1..Len(users) :
        (/\ j.fn = "login"
         /\ j.sub = str(u)
         /\ j.token.payload.type = "access"
         /\ now < j.token.payload.exp
         /\ users[u].is_active)
        => get_current_user(users, j.token, now) = Resolved(u)

\* C22: no protected endpoint resolves a current user who does not exist or
\* whose is_active is false: whatever bearer token is presented, the request
\* is either refused 401 with no user resolved and no user data returned, or
\* the token's subject is the e-mail of an existing active user and that
\* user is the one resolved.
C22_ResolvesOnlyActiveUsers ==
    [][auth_out' # auth_out =>
          \/ /\ auth_out'.status = 401
             /\ auth_out'.user = 0
             /\ auth_out'.data = 0
          \/ \E u \in 1..Len(users) :
                /\ users[u].is_active
                /\ users[u].email = auth_out'.presented.payload.sub
                /\ auth_out'.user \in {0, u}
      ]_vars

\* C22 witness: an unexpired access token signed with the access secret,
\* whose subject is the e-mail of a user that exists but was deactivated, was
\* presented and refused.
C22_Witness ==
    /\ auth_out.status = 401
    /\ auth_out.detail = "Inactive or not found"
    /\ decode_access(auth_out.presented, now).status = 200
    /\ \E u \in 1..Len(users) :
          /\ users[u].email = auth_out.presented.payload.sub
          /\ ~users[u].is_active

\* C23: admin-only operations never take effect for a non-admin caller.  On
\* POST /admin/create-mentor, GET /admin/dashboard and GET /users/{user_id},
\* unless the token presented is a valid access token of an active admin the
\* request is refused (401 or 403), no user row and no dashboard row is
\* created and no user data is returned; and when the token is a valid access
\* token of an active user who is not an admin, the refusal is 403 Forbidden.
C23_AdminOnly ==
    [][(/\ auth_out' # auth_out
        /\ auth_out'.route \in {"/admin/create-mentor", "/admin/dashboard", "/users/{user_id}"})
       => LET tok == auth_out'.presented
              valid == /\ tok.key = ACCESS_SECRET
                       /\ tok.payload.type = "access"
                       /\ tok.payload.iat <= now
                       /\ now < tok.payload.exp
              callers == {u \in 1..Len(users) :
                             users[u].email = tok.payload.sub /\ users[u].is_active}
              is_admin == valid /\ \E u \in callers : users[u].role = "admin"
              authenticated_non_admin == valid /\ \E u \in callers : users[u].role # "admin"
          IN /\ ~is_admin =>
                   /\ auth_out'.status \in {401, 403}
                   /\ users' = users
                   /\ dashboards' = dashboards
                   /\ auth_out'.data = 0
             /\ authenticated_non_admin => auth_out'.status = 403
      ]_vars

\* C23 witness: an active student presented a valid access token of their
\* own that carries a role claim "admin" to POST /admin/create-mentor and was
\* refused 403, while an active admin exists and no mentor was created.
C23_Witness ==
    /\ auth_out.route = "/admin/create-mentor"
    /\ auth_out.status = 403
    /\ decode_access(auth_out.presented, now).status = 200
    /\ "role" \in DOMAIN auth_out.presented.payload
    /\ auth_out.presented.payload.role = "admin"
    /\ \E u \in 1..Len(users) :
          /\ users[u].email = auth_out.presented.payload.sub
          /\ users[u].role = "student"
          /\ users[u].is_active
    /\ AdminCaller
    /\ \A u \in 1..Len(users) : users[u].role # "mentor"

\* C27: every stored User.email is trimmed and lowercase, whichever path
\* created the user (student or mentor registration, admin mentor creation,
\* admin seeding), so that the lookup of login and forgot finds every user
\* under every case variant of the e-mail it was created with.
C27_EmailsNormalised ==
    \A i \in 1..Len(users) :
        /\ users[i].email = strip_lower(users[i].email)
        /\ \A f \in EmailForms :
              UserByEmail(users, _normalize_email(_allow_local_email(<<users[i].email[1], f>>))) = i

\* C28: token verification and refresh are stateless.  POST /auth/refresh
\* changes no table, and its answer is decided by the presented token, the
\* refresh secret and the clock alone: a token signed with the refresh
\* secret, of type refresh, not expired, is answered with a new pair for its
\* subject whether or not a user with that id exists or is active, and any
\* other token with 401.  Every access and refresh token handed out stays
\* valid for decode_access / decode_refresh_token until its expiry, whatever
\* happens to the users table meanwhile (password reset, deactivation).
C28_Stateless ==
    /\ [][refresh_out' # refresh_out =>
            LET tok == refresh_out'.presented
                ok == /\ tok.key = REFRESH_SECRET
                      /\ tok.payload.type = "refresh"
                      /\ tok.payload.iat <= now
                      /\ now < tok.payload.exp
            IN /\ users' = users
               /\ reset_tokens' = reset_tokens
               /\ dashboards' = dashboards
               /\ IF ok THEN refresh_out'.response = TokenPair(tok.payload.sub, now)
                        ELSE refresh_out'.response.status = 401
         ]_vars
    /\ [](\A j \in jwts :
            (j.token.payload.iat <= now /\ now < j.token.payload.exp) =>
                /\ (j.token.key = ACCESS_SECRET /\ j.token.payload.type = "access")
                      => decode_access(j.token, now) = Decoded(j.token.payload)
                /\ (j.token.key = REFRESH_SECRET /\ j.token.payload.type = "refresh")
                      => decode_refresh_token(j.token, now) = Decoded(j.token.payload))

\* C28 witness: the admin logged in, then reset the password and was
\* deactivated; afterwards the refresh token of that login was exchanged for
\* a new pair, and the access token of that login still decodes.
C28_Witness ==
    \E u \in 1..Len(users) :
        /\ ~users[u].is_active
        /\ req[1].pc = "done" /\ req[1].status = 200
        /\ reset_tokens[req[1].token].user_id = u
        /\ refresh_out.response.status = 200
        /\ refresh_out.presented.payload.sub = str(u)
        /\ \E j \in jwts :
              /\ j.fn = "login" /\ j.sub = str(u)
              /\ j.token.payload.type = "access"
              /\ decode_access(j.token, now).status = 200
====
